---- MODULE Spec2Model ----
(***************************************************************************)
(* State-machine model of FiretruckPuzzleApp (src/src/FiretruckPuzzleApp   *)
(* .jsx): the React state (boardPx, pieces, completed), the mutable drag   *)
(* reference, the imperatively written element styles, the pending timers  *)
(* and the live confetti elements.                                         *)
(*                                                                         *)
(* Numbers.  Design-space coordinates are integers.  A screen length of    *)
(* v * scale pixels (scale = boardPx / BASE_SIZE) is held as the integer   *)
(* v * boardPx, i.e. in units of 1/BASE_SIZE pixel, so multiplying by      *)
(* scale is "* boardPx" and dividing by scale is "\div boardPx".  Pointer  *)
(* events are drawn at screen positions whose design-space image is an     *)
(* integer point, so the division is exact.                                *)
(***************************************************************************)
EXTENDS Integers, Sequences, FiniteSets, TLC

VARIABLES
    boardPx,        \* useState(calcBoardPx)
    pieces,         \* useState([]) : sequence of piece records
    completed,      \* useState(false)
    dragRef,        \* useRef(null) : << >> is null, << session >> is live
    style,          \* el.style of the <img> of every piece, by piece id
    fetchState,     \* the manifest fetch: "pending", "done" or "failed"
    effectPending,  \* the completion effect is queued (its deps changed)
    snapTimers,     \* pending 120 ms timers created by a snapping release
    celebTimers,    \* number of pending 300 ms celebration timers
    celebScheduled, \* how many times the celebration timer was scheduled
    particles,      \* live confetti <span> elements, each with its timer
    animating,      \* those of them whose CSS animation is still running
    viewport,       \* window.innerWidth / window.innerHeight
    grab,           \* pointer point and piece position at the pointer-down
                    \* that made the live session (history), << >> if none
    probe,          \* input and result of a coordinate conversion (SpecCoords)
    last            \* the event handled by the latest step (history)

vars == << boardPx, pieces, completed, dragRef, style, fetchState,
           effectPending, snapTimers, celebTimers, celebScheduled,
           particles, animating, viewport, grab, probe, last >>

(***************************************************************************)
(* Program constants                                                       *)
(***************************************************************************)
BASE_SIZE == 1024
MAX_BOARD_PX == 600
SNAP_RADIUS == 40
SpawnMargin == 100
HeaderReserve == 180
SideReserve == 32
SmallCount == 14
BigCount == 50

(***************************************************************************)
(* Bounds of the model                                                     *)
(***************************************************************************)
RandDen == 8            \* Math.random() returns k / RandDen
MaxCelebrations == 2    \* cap on the celebration timers ever scheduled
MaxRoundTrips == 3      \* cap on the repetitions of a coordinate round trip

RandNums == {4}
Viewports == { [w |-> 1000, h |-> 1000], [w |-> 332, h |-> 1000] }
Origins == { [left |-> 0, top |-> 0], [left |-> 200, top |-> 150] }
PointerPts == { [x |-> 515, y |-> 810], [x |-> 550, y |-> 805],
                [x |-> 610, y |-> 905], [x |-> 535, y |-> 510] }
GrabOffsets == { [x |-> 10, y |-> 5] }

Manifest ==
    << [file |-> [stem |-> "wheel", ext |-> ".png"], target |-> [x |-> 500, y |-> 800]],
       [file |-> [stem |-> "cab",   ext |-> ".png"], target |-> [x |-> 520, y |-> 500]] >>
Manifests == { Manifest, << >> }

(***************************************************************************)
(* Pure helpers                                                            *)
(***************************************************************************)
Min2(a, b) == IF a <= b THEN a ELSE b

\* variant: the header reserve of an earlier layout, vh - 192
calcBoardPx_OldReserve(vp) == Min2(Min2(vp.w - SideReserve, vp.h - 192), MAX_BOARD_PX)

\* Math.min(vw - 32, vh - 180, MAX_BOARD_PX)
calcBoardPx(vp) == Min2(Min2(vp.w - SideReserve, vp.h - HeaderReserve), MAX_BOARD_PX)

\* variant: the tray coordinate of an earlier layout, below the board
randomCoord_Tray(k) == (k * 60) \div RandDen + BASE_SIZE + 40

\* Math.random() * (BASE_SIZE - 2 * margin) + margin, with Math.random() = k / RandDen
randomCoord(k) == (k * (BASE_SIZE - 2 * SpawnMargin)) \div RandDen + SpawnMargin

\* p.file.replace(/\.png$/i, "")
StripPng(file) == IF file.ext \in {".png", ".PNG"} THEN file.stem ELSE file.stem \o file.ext

\* the event's clientX / clientY when the pointer is over design point q
ClientOf(q, origin, bp) ==
    [x |-> origin.left * BASE_SIZE + q.x * bp, y |-> origin.top * BASE_SIZE + q.y * bp]

\* variant: the client position taken as board-relative
toLocal_NoOrigin(e, rect, bp) ==
    [x |-> e.x \div bp, y |-> e.y \div bp]

\* { x: (e.clientX - rect.left) / scale, y: (e.clientY - rect.top) / scale }
toLocal(e, rect, bp) ==
    [x |-> (e.x - rect.left * BASE_SIZE) \div bp, y |-> (e.y - rect.top * BASE_SIZE) \div bp]

\* translate(x*scale px, y*scale px) scale(scale*s); s10 is s in tenths
tx(x, y, s10, bp) == [x |-> x * bp, y |-> y * bp, sc |-> bp * s10]

\* variant: the threshold test written with <= instead of <
WithinSnap_Inclusive(target, x, y) ==
    (target.x - x) * (target.x - x) + (target.y - y) * (target.y - y)
        <= SNAP_RADIUS * SNAP_RADIUS

\* Math.hypot(dx, dy) < SNAP_RADIUS, compared on the squares
WithinSnap(target, x, y) ==
    (target.x - x) * (target.x - x) + (target.y - y) * (target.y - y)
        < SNAP_RADIUS * SNAP_RADIUS

Ids(ps) == { ps[i].id : i \in 1..Len(ps) }

\* pieces.findIndex((p) => p.id === id); 0 stands for -1
findIndex(ps, id) ==
    IF \E i \in 1..Len(ps) : ps[i].id = id
    THEN CHOOSE i \in 1..Len(ps) : ps[i].id = id /\ \A j \in 1..(i-1) : ps[j].id # id
    ELSE 0

\* variant: pieces.every alone, without the pieces.length test
AllPlaced_NoLength(ps) == \A i \in 1..Len(ps) : ps[i].placed

\* variant: pieces.some in place of pieces.every
AllPlaced_Some(ps) == Len(ps) > 0 /\ \E i \in 1..Len(ps) : ps[i].placed

\* pieces.length && pieces.every((p) => p.placed)
AllPlaced(ps) == Len(ps) > 0 /\ \A i \in 1..Len(ps) : ps[i].placed

(***************************************************************************)
(* Rendering                                                               *)
(***************************************************************************)
\* style of a freshly mounted <img>: only the transform prop is set (line 193)
MountStyle(p, bp) ==
    [transform |-> tx(p.position.x, p.position.y, 10, bp),
     zIndex |-> "auto", filter |-> "", transition |-> ""]

\* React commit: the style prop transform: tx(piece.position.x, piece.position.y)
\* is written to the element only when it differs from the previous render's prop
\* (an element that is no longer rendered keeps the style it had)
Render(oldPs, oldBp, newPs, newBp, st) ==
    [id \in (DOMAIN st) \cup Ids(newPs) |->
        IF id \notin Ids(newPs) THEN st[id]
        ELSE LET n == newPs[findIndex(newPs, id)]
                 newProp == tx(n.position.x, n.position.y, 10, newBp)
             IN  IF id \notin Ids(oldPs) THEN MountStyle(n, newBp)
                 ELSE LET o == oldPs[findIndex(oldPs, id)]
                          oldProp == tx(o.position.x, o.position.y, 10, oldBp)
                      IN  IF newProp # oldProp
                          THEN [st[id] EXCEPT !.transform = newProp]
                          ELSE st[id]]

\* pt is the design-space pointer point toLocal(e) of a pointer event that acted
NoEvent == [name |-> "mount", id |-> "", acted |-> FALSE, snapped |-> FALSE,
            pt |-> << >>]
Event(n, i, a, s) == [name |-> n, id |-> i, acted |-> a, snapped |-> s,
                      pt |-> << >>]
PointerEvent(n, i, pt) == [name |-> n, id |-> i, acted |-> TRUE, snapped |-> FALSE,
                           pt |-> << pt.x, pt.y >>]

(***************************************************************************)
(* Initial state: the component has mounted, the manifest fetch is in      *)
(* flight and the mount run of the completion effect is queued.            *)
(***************************************************************************)
InitFrom(vps) ==
    /\ viewport \in vps
    /\ boardPx = calcBoardPx(viewport)
    /\ pieces = << >>
    /\ completed = FALSE
    /\ dragRef = << >>
    /\ style = << >>
    /\ fetchState = "pending"
    /\ effectPending = TRUE
    /\ snapTimers = {}
    /\ celebTimers = 0
    /\ celebScheduled = 0
    /\ particles = [small |-> 0, big |-> 0]
    /\ animating = [small |-> 0, big |-> 0]
    /\ grab = << >>
    /\ probe = << >>
    /\ last = NoEvent

Init == InitFrom(Viewports)

(***************************************************************************)
(* Manifest fetch                                                          *)
(***************************************************************************)
randomOnBoard(kx, ky) == [x |-> randomCoord(kx), y |-> randomCoord(ky)]

InitialPieces(data, kx, ky) ==
    [i \in 1..Len(data) |->
        [id |-> StripPng(data[i].file),
         target |-> data[i].target,
         position |-> randomOnBoard(kx[i], ky[i]),
         placed |-> FALSE]]

\* .then((data) => setPieces(data.map(...))) followed by the re-render
LoadManifestFrom(rands) ==
    /\ fetchState = "pending"
    /\ ~effectPending
    /\ \E data \in Manifests :
       \E kx \in [1..Len(data) -> rands], ky \in [1..Len(data) -> rands] :
          LET np == InitialPieces(data, kx, ky) IN
          /\ pieces' = np
          /\ style' = Render(pieces, boardPx, np, boardPx, style)
    /\ fetchState' = "done"
    /\ effectPending' = TRUE
    /\ last' = Event("load", "", TRUE, FALSE)
    /\ UNCHANGED << boardPx, completed, dragRef, snapTimers, celebTimers,
                    celebScheduled, particles,
                    animating, viewport, grab, probe >>

LoadManifest == LoadManifestFrom(RandNums)

\* the fetch rejects: no handler, the registry stays empty
FetchFail ==
    /\ fetchState = "pending"
    /\ fetchState' = "failed"
    /\ last' = Event("fetchFail", "", FALSE, FALSE)
    /\ UNCHANGED << boardPx, pieces, completed, dragRef, style, effectPending,
                    snapTimers, celebTimers, celebScheduled, particles,
                    animating, viewport, grab, probe >>

(***************************************************************************)
(* Layout scaler                                                           *)
(***************************************************************************)
\* onResize: setBoardPx(calcBoardPx()); an equal value bails out of rendering
ResizeTo(vp) ==
       LET nb == calcBoardPx(vp) IN
       /\ nb # boardPx => ~effectPending
       /\ (nb # boardPx /\ AllPlaced(pieces)) => celebScheduled < MaxCelebrations
       /\ viewport' = vp
       /\ boardPx' = nb
       /\ style' = Render(pieces, boardPx, pieces, nb, style)
       /\ effectPending' = (effectPending \/ nb # boardPx)
       /\ last' = Event("resize", "", nb # boardPx, FALSE)
       /\ UNCHANGED << pieces, completed, dragRef, fetchState, snapTimers,
                       celebTimers, celebScheduled, particles,
                       animating, grab, probe >>

Resize == \E vp \in Viewports : ResizeTo(vp)

(***************************************************************************)
(* Completion effect, deps [pieces, scale]                                 *)
(***************************************************************************)
\* variant: setCompleted((c) => !c) in place of setCompleted(true)
CompletionEffect_Toggle ==
    /\ effectPending
    /\ effectPending' = FALSE
    /\ IF AllPlaced(pieces)
       THEN /\ completed' = ~completed
            /\ celebTimers' = celebTimers + 1
            /\ celebScheduled' = celebScheduled + 1
       ELSE UNCHANGED << completed, celebTimers, celebScheduled >>
    /\ last' = Event("effect", "", AllPlaced(pieces), FALSE)
    /\ UNCHANGED << boardPx, pieces, dragRef, style, fetchState, snapTimers,
                    particles,
                    animating, viewport, grab, probe >>

CompletionEffect ==
    /\ effectPending
    /\ effectPending' = FALSE
    /\ IF AllPlaced(pieces)
       THEN /\ completed' = TRUE
            /\ celebTimers' = celebTimers + 1
            /\ celebScheduled' = celebScheduled + 1
       ELSE UNCHANGED << completed, celebTimers, celebScheduled >>
    /\ last' = Event("effect", "", AllPlaced(pieces), FALSE)
    /\ UNCHANGED << boardPx, pieces, dragRef, style, fetchState, snapTimers,
                    particles,
                    animating, viewport, grab, probe >>

\* confetti(x, y, big): const N = big ? 50 : 14
ConfettiCount(big) == IF big THEN BigCount ELSE SmallCount

\* sp.style.animation = `pop ${big ? 1200 : 900}ms ease-out forwards`
AnimationMs(big) == IF big THEN 1200 ELSE 900

\* variant: the two removal delays exchanged
LifetimeMs_Exchanged(big) == IF big THEN 1000 ELSE 1300

\* setTimeout(() => sp.remove(), big ? 1300 : 1000)
LifetimeMs(big) == IF big THEN 1300 ELSE 1000

Kind(big) == IF big THEN "big" ELSE "small"

\* n calls of confetti(.., big): each appends N animated <span> elements
Emit(cnt, big, n) == [cnt EXCEPT ![Kind(big)] = @ + n * ConfettiCount(big)]

\* setTimeout(() => confetti(BASE_SIZE / 2, BASE_SIZE / 2, true), 300) fires
CelebrationTimer ==
    /\ celebTimers > 0
    /\ celebTimers' = celebTimers - 1
    /\ particles' = Emit(particles, TRUE, 1)
    /\ animating' = Emit(animating, TRUE, 1)
    /\ last' = Event("celebration", "", TRUE, FALSE)
    /\ UNCHANGED << boardPx, pieces, completed, dragRef, style, fetchState,
                    effectPending, snapTimers, celebScheduled,
                    viewport, grab, probe >>

\* setTimeout(() => sp.remove(), big ? 1300 : 1000): the N timers of one
\* confetti() call are set in one loop with one delay, each removes only its
\* own element and reads nothing, so their firings are taken as one step.
\* The elements of the oldest confetti() call of a kind go first (equal
\* delays).  Their animation and their removal timer start together, so the
\* removal comes after the end of the animation exactly when the delay is the
\* longer of the two; the elements whose animation still runs are the newest.
ParticleRemoveKind(big) ==
    LET k == Kind(big) IN
    /\ particles[k] > 0
    /\ LifetimeMs(big) > AnimationMs(big) => animating[k] < particles[k]
    /\ particles' = [particles EXCEPT ![k] = @ - ConfettiCount(big)]
    /\ animating' = IF animating[k] = particles[k]
                    THEN [animating EXCEPT ![k] = @ - ConfettiCount(big)]
                    ELSE animating
    /\ last' = Event("remove", k, TRUE, FALSE)
    /\ UNCHANGED << boardPx, pieces, completed, dragRef, style, fetchState,
                    effectPending, snapTimers, celebTimers, celebScheduled,
                    viewport, grab, probe >>

ParticleRemove == \E big \in BOOLEAN : ParticleRemoveKind(big)

\* the pop animation of the elements of one confetti() call runs to its end
\* (animation-fill-mode forwards: the element stays, at its last keyframe)
AnimationEndKind(big) ==
    LET k == Kind(big) IN
    /\ animating[k] > 0
    /\ AnimationMs(big) <= LifetimeMs(big)
    /\ animating' = [animating EXCEPT ![k] = @ - ConfettiCount(big)]
    /\ last' = Event("animationEnd", k, TRUE, FALSE)
    /\ UNCHANGED << boardPx, pieces, completed, dragRef, style, fetchState,
                    effectPending, snapTimers, celebTimers, celebScheduled,
                    particles, viewport, grab, probe >>

AnimationEnd == \E big \in BOOLEAN : AnimationEndKind(big)

(***************************************************************************)
(* Pointer handlers                                                        *)
(***************************************************************************)
\* variant: the early return forgets pieces[idx].placed
DownRefused_NoPlacedCheck(ps, done, id) ==
    \/ done
    \/ findIndex(ps, id) = 0

\* onDown returns early: completed, or the piece is missing or placed
DownRefused(ps, done, id) ==
    \/ done
    \/ findIndex(ps, id) = 0
    \/ ps[findIndex(ps, id)].placed

\* variant: the session records no grab offset
NewSession_NoOffset(id, pt, pos) ==
    [id |-> id, offX |-> 0, offY |-> 0, el |-> id, lastXY |-> << >>]

\* dragRef.current = { id, offX, offY, el } ; el is the <img> of piece id
NewSession(id, pt, pos) ==
    [id |-> id, offX |-> pt.x - pos.x, offY |-> pt.y - pos.y, el |-> id,
     lastXY |-> << >>]

\* onDown(id)(e): the pointer goes down on the <img> of the i-th rendered
\* piece, at grab offset g from the piece's position
OnDown ==
    /\ \E i \in 1..Len(pieces), g \in GrabOffsets, rect \in Origins :
       LET id == pieces[i].id
           pos == pieces[findIndex(pieces, id)].position
           e == ClientOf([x |-> pos.x + g.x, y |-> pos.y + g.y], rect, boardPx)
           pt == toLocal(e, rect, boardPx)
       IN  IF DownRefused(pieces, completed, id)
           THEN /\ last' = Event("onDown", id, FALSE, FALSE)
                /\ UNCHANGED << dragRef, style, grab >>
           ELSE /\ dragRef' = << NewSession(id, pt, pos) >>
                /\ grab' = [p |-> << pt.x, pt.y >>, c |-> << pos.x, pos.y >>]
                /\ style' = [style EXCEPT ![id].zIndex = "60",
                                          ![id].filter = "shadow"]
                /\ last' = PointerEvent("onDown", id, pt)
    /\ UNCHANGED << boardPx, pieces, completed, fetchState, effectPending,
                    snapTimers, celebTimers, celebScheduled, particles,
                    animating, viewport, probe >>

\* const x = pt.x - offX; const y = pt.y - offY
DragPos(d, pt) == << pt.x - d.offX, pt.y - d.offY >>

\* onMove(e): the pointer moves to design point q of the board
OnMove ==
    /\ \E q \in PointerPts, rect \in Origins :
       LET pt == toLocal(ClientOf(q, rect, boardPx), rect, boardPx) IN
       IF dragRef = << >>
       THEN /\ last' = Event("onMove", "", FALSE, FALSE)
            /\ UNCHANGED << dragRef, style >>
       ELSE LET d == dragRef[1]
                xy == DragPos(d, pt)
            IN  /\ style' = [style EXCEPT ![d.el].transform =
                                              tx(xy[1], xy[2], 11, boardPx)]
                /\ dragRef' = << [d EXCEPT !.lastXY = xy] >>
                /\ last' = PointerEvent("onMove", d.id, pt)
    /\ UNCHANGED << boardPx, pieces, completed, fetchState, effectPending,
                    snapTimers, celebTimers, celebScheduled, particles,
                    animating, viewport, grab, probe >>

\* variant: the release reads the registry position only
FinalPos_IgnoresMove(p, d) == << p.position.x, p.position.y >>

\* variant: without a move the release takes the point of the pointer-down
FinalPos_GrabPoint(p, d) ==
    IF d.lastXY = << >> THEN << p.position.x + d.offX, p.position.y + d.offY >>
    ELSE d.lastXY

\* const x = lastX ?? p.position.x; const y = lastY ?? p.position.y
FinalPos(p, d) ==
    IF d.lastXY = << >> THEN << p.position.x, p.position.y >> ELSE d.lastXY

\* variant: the updater forgets p.id !== id
Skipped_AnyUnplaced(p, d) == p.placed

\* the updater skips the piece: if (p.id !== id || p.placed) return p
Skipped(p, d) == p.id # d.id \/ p.placed

Snaps(p, d) ==
    /\ ~Skipped(p, d)
    /\ WithinSnap(p.target, FinalPos(p, d)[1], FinalPos(p, d)[2])

\* variant: a release outside the snap radius does not store the drop point
Settle_DropNotStored(p, d) ==
    IF Skipped(p, d) THEN p
    ELSE IF Snaps(p, d)
         THEN [p EXCEPT !.placed = TRUE, !.position = p.target]
         ELSE p

\* the value the updater returns for piece p
Settle(p, d) ==
    IF Skipped(p, d) THEN p
    ELSE IF Snaps(p, d)
         THEN [p EXCEPT !.placed = TRUE, !.position = p.target]
         ELSE [p EXCEPT !.position = [x |-> FinalPos(p, d)[1],
                                      y |-> FinalPos(p, d)[2]]]

\* the el.style writes the updater makes while mapping pieces i, i+1, ...
RECURSIVE UpStyle(_, _, _, _, _)
UpStyle(i, ps, d, bp, st) ==
    IF i > Len(ps) THEN st
    ELSE LET p == ps[i] IN
         IF Skipped(p, d) THEN UpStyle(i + 1, ps, d, bp, st)
         ELSE IF Snaps(p, d)
              THEN UpStyle(i + 1, ps, d, bp,
                       [st EXCEPT ![d.el].transition = "120ms",
                                  ![d.el].transform = tx(p.target.x, p.target.y, 12, bp)])
              ELSE UpStyle(i + 1, ps, d, bp,
                       [st EXCEPT ![d.el].transition = "120ms",
                                  ![d.el].transform = tx(FinalPos(p, d)[1], FinalPos(p, d)[2], 10, bp),
                                  ![d.el].filter = "none",
                                  ![d.el].zIndex = "10"])

SnapIdx(ps, d) == { i \in 1..Len(ps) : Snaps(ps[i], d) }

\* setTimeout(() => { el.style.transform = tx(p.target.x, p.target.y, 1); ... }, 120)
\* tx closes over the scale of the render in which onUp was created
SnapTimer(p, d, bp) == [el |-> d.el, x |-> p.target.x, y |-> p.target.y, bp |-> bp]

\* variant: no early return, setPieces runs with an updater that matches no
\* piece, which still yields a new array and a re-render
OnUpIdle_Rerender ==
    /\ dragRef = << >>
    /\ ~effectPending
    /\ effectPending' = TRUE
    /\ last' = Event("onUp", "", FALSE, FALSE)
    /\ UNCHANGED << boardPx, pieces, completed, dragRef, style, fetchState,
                    snapTimers, celebTimers, celebScheduled, particles,
                    animating, viewport, grab, probe >>

\* onUp() with no session: if (!dragRef.current) return
OnUpIdle ==
    /\ dragRef = << >>
    /\ last' = Event("onUp", "", FALSE, FALSE)
    /\ UNCHANGED << boardPx, pieces, completed, dragRef, style, fetchState,
                    effectPending, snapTimers, celebTimers, celebScheduled,
                    particles,
                    animating, viewport, grab, probe >>

\* variant: onUp without dragRef.current = null
OnUpDrag_KeepsSession ==
    /\ dragRef # << >>
    /\ ~effectPending
    /\ LET d == dragRef[1]
           np == [i \in 1..Len(pieces) |-> Settle(pieces[i], d)]
           snapped == SnapIdx(pieces, d)
       IN  /\ AllPlaced(np) => celebScheduled < MaxCelebrations
           /\ UNCHANGED << dragRef, grab >>
           /\ pieces' = np
           /\ style' = Render(pieces, boardPx, np, boardPx,
                              UpStyle(1, pieces, d, boardPx, style))
           /\ snapTimers' = snapTimers \cup
                  { SnapTimer(pieces[i], d, boardPx) : i \in snapped }
           /\ particles' = Emit(particles, FALSE, Cardinality(snapped))
           /\ animating' = Emit(animating, FALSE, Cardinality(snapped))
           /\ effectPending' = TRUE
           /\ last' = Event("onUp", d.id, TRUE, snapped # {})
    /\ UNCHANGED << boardPx, completed, fetchState, celebTimers,
                    celebScheduled,
                    viewport, probe >>

\* onUp() with a live session: the session is cleared, the updater maps the
\* registry (always to a new array), React re-renders
OnUpDrag ==
    /\ dragRef # << >>
    /\ ~effectPending
    /\ LET d == dragRef[1]
           np == [i \in 1..Len(pieces) |-> Settle(pieces[i], d)]
           snapped == SnapIdx(pieces, d)
       IN  /\ AllPlaced(np) => celebScheduled < MaxCelebrations
           /\ dragRef' = << >>
           /\ grab' = << >>
           /\ pieces' = np
           /\ style' = Render(pieces, boardPx, np, boardPx,
                              UpStyle(1, pieces, d, boardPx, style))
           /\ snapTimers' = snapTimers \cup
                  { SnapTimer(pieces[i], d, boardPx) : i \in snapped }
           /\ particles' = Emit(particles, FALSE, Cardinality(snapped))
           /\ animating' = Emit(animating, FALSE, Cardinality(snapped))
           /\ effectPending' = TRUE
           /\ last' = Event("onUp", d.id, TRUE, snapped # {})
    /\ UNCHANGED << boardPx, completed, fetchState, celebTimers,
                    celebScheduled,
                    viewport, probe >>

\* pointercancel / lostpointercapture: the board registers no handler for
\* either (lines 176-182), so nothing runs
PointerCancel ==
    /\ last' = Event("pointerCancel", "", FALSE, FALSE)
    /\ UNCHANGED << boardPx, pieces, completed, dragRef, style, fetchState,
                    effectPending, snapTimers, celebTimers, celebScheduled,
                    particles,
                    animating, viewport, grab, probe >>

\* the 120 ms timer of a snapping release fires
SnapTimerFire ==
    \E t \in snapTimers :
       /\ snapTimers' = snapTimers \ {t}
       /\ style' = [style EXCEPT ![t.el].transform = tx(t.x, t.y, 10, t.bp),
                                 ![t.el].filter = "none",
                                 ![t.el].zIndex = "0"]
       /\ last' = Event("snapTimer", t.el, TRUE, FALSE)
       /\ UNCHANGED << boardPx, pieces, completed, dragRef, fetchState,
                       effectPending, celebTimers, celebScheduled, particles,
                    animating, viewport, grab, probe >>

Next ==
    \/ LoadManifest
    \/ FetchFail
    \/ Resize
    \/ CompletionEffect
    \/ CelebrationTimer
    \/ ParticleRemove
    \/ AnimationEnd
    \/ OnDown
    \/ OnMove
    \/ OnUpIdle
    \/ OnUpDrag
    \/ PointerCancel
    \/ SnapTimerFire

Spec == Init /\ [][Next]_vars

(***************************************************************************)
(* The same machine under a pointer that never moves while it is down:     *)
(* every release follows its pointer-down with no pointer-move in between. *)
(* The wheel spawns outside the snap radius of its target, so no click     *)
(* completes the puzzle and no celebration timer is ever set.              *)
(***************************************************************************)
NextClick ==
    \/ LoadManifest
    \/ FetchFail
    \/ Resize
    \/ CompletionEffect
    \/ ParticleRemove
    \/ AnimationEnd
    \/ OnDown
    \/ OnUpIdle
    \/ OnUpDrag
    \/ PointerCancel
    \/ SnapTimerFire

SpecClick == Init /\ [][NextClick]_vars

(***************************************************************************)
(* The same machine with the browser's guarantees about time: a timer      *)
(* that has been set fires, and a CSS animation that has started comes to  *)
(* its end, unless its element is removed first.                           *)
(***************************************************************************)
SpecConfetti ==
    /\ Spec
    /\ WF_vars(CelebrationTimer)
    /\ WF_vars(AnimationEndKind(FALSE))
    /\ WF_vars(AnimationEndKind(TRUE))
    /\ WF_vars(ParticleRemoveKind(FALSE))
    /\ WF_vars(ParticleRemoveKind(TRUE))

(***************************************************************************)
(* The coordinate conversion as a function of its inputs: a pointer event  *)
(* at a whole client pixel, a board origin and a display size are drawn,   *)
(* the event is mapped to design space with toLocal and back to the screen *)
(* with tx (as onMove does with a zero grab offset), and the result is fed *)
(* back as the next pointer position.  Lengths are exact: the events drawn *)
(* are those whose design-space image is a whole number.                   *)
(***************************************************************************)
CoordBoardPx == { 1, 256, 300, 512, 600, 1024 }
CoordPixels == { -3, 0, 1, 75, 125, 150, 300, 600 }

\* the event at client pixel (px, py)
ClientAt(px, py) == [x |-> px * BASE_SIZE, y |-> py * BASE_SIZE]

Representable(e, rect, bp) ==
    /\ (e.x - rect.left * BASE_SIZE) % bp = 0
    /\ (e.y - rect.top * BASE_SIZE) % bp = 0

\* toLocal(e), then tx of the result; screen is the translate, which is
\* relative to the board's origin
Converted(e0, e, rect, bp, n) ==
    LET local == toLocal(e, rect, bp) IN
    [bp |-> bp, rect |-> rect, e0 |-> e0, e |-> e, local |-> local,
     screen |-> tx(local.x, local.y, 10, bp), n |-> n]

ProbeMove ==
    /\ \E px \in CoordPixels, py \in CoordPixels, rect \in Origins, bp \in CoordBoardPx :
          LET e == ClientAt(px, py) IN
          /\ Representable(e, rect, bp)
          /\ probe' = << Converted(e, e, rect, bp, 0) >>
    /\ UNCHANGED << boardPx, pieces, completed, dragRef, style, fetchState,
                    effectPending, snapTimers, celebTimers, celebScheduled,
                    particles, animating, viewport, grab, last >>

\* the pointer is put where the translate shows the point, and converted again
ProbeRepeat ==
    /\ probe # << >>
    /\ probe[1].n < MaxRoundTrips
    /\ LET pr == probe[1]
           e == [x |-> pr.rect.left * BASE_SIZE + pr.screen.x,
                 y |-> pr.rect.top * BASE_SIZE + pr.screen.y]
       IN  probe' = << Converted(pr.e0, e, pr.rect, pr.bp, pr.n + 1) >>
    /\ UNCHANGED << boardPx, pieces, completed, dragRef, style, fetchState,
                    effectPending, snapTimers, celebTimers, celebScheduled,
                    particles, animating, viewport, grab, last >>

NextCoords ==
    \/ ProbeMove
    \/ ProbeRepeat

SpecCoords == Init /\ [][NextCoords]_vars

(***************************************************************************)
(* The spawn positions as a function of the random source: Math.random()   *)
(* returns any k / RandDen in [0, 1), independently for every coordinate   *)
(* of every piece.                                                         *)
(***************************************************************************)
SpawnRands == 0..(RandDen - 1)

SpawnLoad == LoadManifestFrom(SpawnRands)

NextSpawn ==
    \/ CompletionEffect
    \/ SpawnLoad

SpecSpawn == Init /\ [][NextSpawn]_vars

(***************************************************************************)
(* The layout scaler as a function of the viewport: the component mounts   *)
(* in, and is resized to, viewports of any size, the degenerate ones       *)
(* (narrower than the side reserve, lower than the header reserve)         *)
(* included.  The registry stays empty, so no pointer arithmetic divides   *)
(* by the scale.                                                           *)
(***************************************************************************)
LayoutWidths == { 0, 20, 32, 33, 132, 332, 632, 633, 1000, 1920 }
LayoutHeights == { 0, 100, 180, 181, 480, 780, 781, 1000 }
LayoutViewports == { [w |-> vw, h |-> vh] : vw \in LayoutWidths, vh \in LayoutHeights }

LayoutResize == \E vp \in LayoutViewports : ResizeTo(vp)

NextLayout ==
    \/ CompletionEffect
    \/ LayoutResize

SpecLayout == InitFrom(LayoutViewports) /\ [][NextLayout]_vars

(***************************************************************************)
(* The registry update of onUp as a function of its inputs.  SpecStale     *)
(* starts the machine either from Init or from a registry paired with a    *)
(* stale drag reference (spec section 7(b)): a session whose piece is      *)
(* already placed, or is no longer in the registry.                        *)
(***************************************************************************)
SpawnedPieces ==
    InitialPieces(Manifest, [i \in 1..Len(Manifest) |-> CHOOSE k \in RandNums : TRUE],
                            [i \in 1..Len(Manifest) |-> CHOOSE k \in RandNums : TRUE])

Snapped(p) == [p EXCEPT !.placed = TRUE, !.position = p.target]

\* registries of the manifest's pieces, some of them placed, the trailing
\* ones possibly gone
Registries ==
    { [i \in 1..n |-> IF i \in S THEN Snapped(SpawnedPieces[i]) ELSE SpawnedPieces[i]] :
          n \in 1..Len(Manifest), S \in SUBSET (1..Len(Manifest)) }

\* the style of an element at rest: mounted, or snapped and its timer fired
RestStyle(p, bp) ==
    IF p.placed
    THEN [transform |-> tx(p.target.x, p.target.y, 10, bp),
          zIndex |-> "0", filter |-> "none", transition |-> "120ms"]
    ELSE MountStyle(p, bp)

\* the style of an element elevated by onDown
HeldStyle(p, bp) ==
    [RestStyle(p, bp) EXCEPT !.zIndex = "60", !.filter = "shadow"]

InitStale ==
    /\ viewport \in Viewports
    /\ boardPx = calcBoardPx(viewport)
    /\ \E reg \in Registries, j \in 1..Len(Manifest),
          xy \in { << >>, << 505, 805 >> } :
          LET held == SpawnedPieces[j] IN
          /\ IF j > Len(reg) THEN TRUE ELSE reg[j].placed
          /\ pieces = reg
          /\ dragRef = << [NewSession(held.id, [x |-> held.position.x + 10,
                                                y |-> held.position.y + 5],
                                      held.position) EXCEPT !.lastXY = xy] >>
          /\ grab = [p |-> << held.position.x + 10, held.position.y + 5 >>,
                     c |-> << held.position.x, held.position.y >>]
          /\ style = [id \in Ids(reg) \cup {held.id} |->
                        IF id = held.id
                        THEN HeldStyle(IF j > Len(reg) THEN held ELSE reg[j], boardPx)
                        ELSE RestStyle(reg[findIndex(reg, id)], boardPx)]
    /\ completed = AllPlaced(pieces)
    /\ fetchState = "done"
    /\ effectPending = FALSE
    /\ snapTimers = {}
    /\ celebTimers = 0
    /\ celebScheduled = (IF AllPlaced(pieces) THEN 1 ELSE 0)
    /\ particles = [small |-> 0, big |-> 0]
    /\ animating = [small |-> 0, big |-> 0]
    /\ probe = << >>
    /\ last = NoEvent

SpecStale == (Init \/ InitStale) /\ [][Next]_vars

(***************************************************************************)
(* Properties                                                              *)
(***************************************************************************)
SqDist(ax, ay, bx, by) == (ax - bx) * (ax - bx) + (ay - by) * (ay - by)

\* the position a release of session d uses for piece p: the position of the
\* latest pointer-move, or the registry position when there was none
ReleasePos(p, d) ==
    IF d.lastXY = << >> THEN << p.position.x, p.position.y >> ELSE d.lastXY

ReleaseInRadius(p, d) ==
    SqDist(ReleasePos(p, d)[1], ReleasePos(p, d)[2], p.target.x, p.target.y)
        < SNAP_RADIUS * SNAP_RADIUS

HasPiece(id) == \E i \in 1..Len(pieces) : pieces[i].id = id
PieceById(id) == pieces[CHOOSE i \in 1..Len(pieces) : pieces[i].id = id]

\* C1: a piece is created unplaced; placed turns true only in a pointer-up
\* step that releases the session of that piece at a distance below
\* SNAP_RADIUS from its target; a placed piece stays placed and its position
\* equals its target in every later state.
C1_PlacedOnlyBySnapAndForGood ==
    [][ /\ pieces = << >> => \A i \in 1..Len(pieces') : ~pieces'[i].placed
        /\ pieces # << >> =>
             /\ Len(pieces') = Len(pieces)
             /\ \A i \in 1..Len(pieces) :
                  /\ pieces[i].placed =>
                       /\ pieces'[i].placed
                       /\ pieces'[i].position = pieces[i].target
                       /\ pieces'[i].target = pieces[i].target
                  /\ (~pieces[i].placed /\ pieces'[i].placed) =>
                       /\ last'.name = "onUp"
                       /\ dragRef # << >>
                       /\ dragRef' = << >>
                       /\ dragRef[1].id = pieces[i].id
                       /\ ReleaseInRadius(pieces[i], dragRef[1])
                       /\ pieces'[i].position = pieces[i].target
      ]_vars

C1_Witness ==
    /\ last.name = "onUp"
    /\ last.snapped
    /\ HasPiece(last.id)
    /\ PieceById(last.id).placed
    /\ PieceById(last.id).position = PieceById(last.id).target

\* C2: a pointer-up that ends the drag of an unplaced piece with final
\* position f sets placed=true and position=target when the distance from f
\* to the target is strictly below SNAP_RADIUS, and otherwise (distance of
\* exactly SNAP_RADIUS included) sets position=f and leaves placed false.
C2_ReleaseOutcome ==
    [][ (last'.name = "onUp" /\ dragRef # << >>) =>
          \A i \in 1..Len(pieces) :
             (pieces[i].id = dragRef[1].id /\ ~pieces[i].placed) =>
                 IF ReleaseInRadius(pieces[i], dragRef[1])
                 THEN /\ pieces'[i].placed
                      /\ pieces'[i].position = pieces[i].target
                 ELSE /\ ~pieces'[i].placed
                      /\ pieces'[i].position =
                            [x |-> ReleasePos(pieces[i], dragRef[1])[1],
                             y |-> ReleasePos(pieces[i], dragRef[1])[2]]
      ]_vars

\* the wheel (target (500,800)) was released at (540,800), distance exactly 40
C2_Witness ==
    /\ last.name = "onUp"
    /\ last.acted
    /\ ~last.snapped
    /\ last.id = "wheel"
    /\ PieceById("wheel").target = [x |-> 500, y |-> 800]
    /\ PieceById("wheel").position = [x |-> 540, y |-> 800]
    /\ ~PieceById("wheel").placed

\* C3: while a drag session is live, a pointer-down leaves the session as it
\* is (same piece, same recorded offset, same last position).
C3_SecondDownKeepsSession ==
    [][ (dragRef # << >> /\ last'.name = "onDown") => dragRef' = dragRef ]_vars

\* C4 as stated: once the completion check has run on the current registry,
\* completed is true iff the set of placed pieces equals the full piece set.
C4_CompletedIffPlacedSetIsFull ==
    ~effectPending =>
        (completed <=>
            { i \in 1..Len(pieces) : pieces[i].placed } = 1..Len(pieces))

\* C4 amended: once the completion check has run on the current registry,
\* completed is true iff the registry is non-empty and every piece is
\* placed; in every state completed=true implies that every piece is placed.
C4_CompletedIffNonEmptyAndAllPlaced ==
    /\ ~effectPending =>
          (completed <=>
              (Len(pieces) > 0 /\ \A i \in 1..Len(pieces) : pieces[i].placed))
    /\ completed => \A i \in 1..Len(pieces) : pieces[i].placed

C4_Witness ==
    /\ ~effectPending
    /\ completed
    /\ Len(pieces) = Len(Manifest)
    /\ \A i \in 1..Len(pieces) : pieces[i].placed

\* C5: the board-wide celebration is scheduled at most once per load.
C5_CelebrationScheduledOnce == celebScheduled <= 1

\* C6: a pointer-down while completed is true, or on a placed piece, creates
\* no session and leaves the registry and the element styles unchanged.
C6_DownRefusedWhenDone ==
    [][ ( /\ last'.name = "onDown"
          /\ HasPiece(last'.id)
          /\ (completed \/ PieceById(last'.id).placed) ) =>
            /\ dragRef' = dragRef
            /\ pieces' = pieces
            /\ style' = style
      ]_vars

C6_Witness ==
    /\ last.name = "onDown"
    /\ ~last.acted
    /\ completed
    /\ dragRef = << >>

\* C7: once completed is true no step makes it false.
C7_CompletedMonotone == [][ completed => completed' ]_vars

\* the completion effect has run again (after a resize) with completed true
C7_Witness ==
    /\ completed
    /\ last.name = "effect"
    /\ celebScheduled > 1

\* C8: after a pointer-up and after a pointer cancel / capture loss no
\* session is live.
C8_SessionEndsOnUpOrCancel ==
    [][ last'.name \in {"onUp", "pointerCancel"} => dragRef' = << >> ]_vars

\* C9: with no session, a pointer-move or pointer-up changes nothing: not the
\* registry, the session, the completion flag, any element style, the
\* particles, the timers, nor the queue of the completion effect.
C9_IdleMoveUpIgnored ==
    [][ (dragRef = << >> /\ last'.name \in {"onMove", "onUp"}) =>
            UNCHANGED << boardPx, pieces, completed, dragRef, style,
                         fetchState, effectPending, snapTimers, celebTimers,
                         celebScheduled, particles >>
      ]_vars

C9_Witness ==
    /\ last.name \in {"onMove", "onUp"}
    /\ ~last.acted
    /\ dragRef = << >>
    /\ pieces # << >>
    /\ ~completed

\* the live session names a piece that is placed or not in the registry
StaleSession ==
    /\ dragRef # << >>
    /\ \/ ~HasPiece(dragRef[1].id)
       \/ PieceById(dragRef[1].id).placed

DraggedXY == IF dragRef = << >> THEN << >> ELSE dragRef[1].lastXY

\* C11: when the display size changes while a piece is being dragged, the
\* piece's screen position becomes its dragged design-space position times the
\* new scale, and the session (its recorded drag position, which the snap
\* comparison at release reads) is left as it was.
C11_DraggedPieceScalesWithBoard ==
    [][ (last'.name = "resize" /\ boardPx' # boardPx /\ DraggedXY # << >>)
          => /\ style'[dragRef[1].el].transform.x = DraggedXY[1] * boardPx'
             /\ style'[dragRef[1].el].transform.y = DraggedXY[2] * boardPx'
             /\ dragRef' = dragRef
             /\ pieces' = pieces ]_vars

\* C12: for every viewport, the degenerate ones included, the display size is
\* clamped to a floor: the scale boardPx / BASE_SIZE is never zero or negative.
C12_ScaleAlwaysPositive == boardPx > 0

\* C13: the display size is at most 600 (hence below the design size 1024),
\* at most the viewport width minus 32 and at most the viewport height minus
\* 180, and is one of the three; this holds at mount and after every resize,
\* for the viewport the window then has.
C13_DisplaySizeIsMinOfThree ==
    /\ boardPx <= 600
    /\ boardPx < 1024
    /\ boardPx <= viewport.w - 32
    /\ boardPx <= viewport.h - 180
    /\ boardPx \in { 600, viewport.w - 32, viewport.h - 180 }

\* a resize has changed the display size to one bound by the header reserve
C13_Witness ==
    /\ last.name = "resize"
    /\ last.acted
    /\ boardPx = viewport.h - 180
    /\ boardPx < viewport.w - 32
    /\ boardPx < 600
    /\ boardPx > 0

\* C14: every piece the manifest load creates is unplaced and has both
\* coordinates of its initial position inside [100, 924], whatever the random
\* source returns.
C14_SpawnInsideBoard ==
    [][ last'.name = "load"
          => \A i \in 1..Len(pieces') :
                /\ ~pieces'[i].placed
                /\ pieces'[i].position.x >= 100 /\ pieces'[i].position.x <= 924
                /\ pieces'[i].position.y >= 100 /\ pieces'[i].position.y <= 924 ]_vars

\* a load that drew the smallest random number for one coordinate and the
\* largest for another
C14_Witness ==
    /\ last.name = "load"
    /\ \E i \in 1..Len(pieces) : pieces[i].position.x = 100 /\ ~pieces[i].placed
    /\ \E i \in 1..Len(pieces) :
          pieces[i].position.y = randomCoord(RandDen - 1) /\ pieces[i].position.y > 800

\* C15: an emit creates a fixed number of particle elements (14 small, 50 big)
\* and nothing else creates any; an element's removal timer (1000 ms small,
\* 1300 ms big) outlasts its animation (900 ms, 1200 ms), so an element is
\* removed only after its animation has ended; every element is eventually
\* removed, and the number of live elements returns to zero.
C15_ParticlesCleanedUp ==
    /\ [][ /\ LifetimeMs(FALSE) = 1000 /\ AnimationMs(FALSE) = 900
           /\ LifetimeMs(TRUE) = 1300 /\ AnimationMs(TRUE) = 1200
           /\ (last'.name = "onUp" /\ last'.snapped)
                 => particles' = [particles EXCEPT !.small = @ + 14]
           /\ last'.name = "celebration"
                 => particles' = [particles EXCEPT !.big = @ + 50]
           /\ (last'.name \notin {"onUp", "celebration"})
                 => (particles'.small <= particles.small /\ particles'.big <= particles.big)
           /\ \A k \in {"small", "big"} :
                 particles'[k] < particles[k]
                    => (animating[k] < particles[k] /\ animating'[k] = animating[k])
        ]_vars
    /\ (particles.small > 0) ~> (particles.small = 0)
    /\ (particles.big > 0) ~> (particles.big = 0)
    /\ <>[](particles.small = 0 /\ particles.big = 0)

\* the elements of the celebration burst have been removed after those of the
\* snap bursts, and none is left
C15_Witness ==
    /\ last.name = "remove"
    /\ last.id = "big"
    /\ completed
    /\ particles.small = 0
    /\ particles.big = 0
    /\ animating.big = 0

C17_SnapTimerKeepsScreenPosition ==
    [][ last'.name = "snapTimer"
          => LET p == PieceById(last'.id) IN
             /\ p.placed
             /\ style'[last'.id].transform.x = p.target.x * boardPx'
             /\ style'[last'.id].transform.y = p.target.y * boardPx' ]_vars

\* C18: with the pointer-down of the live session at design-space point P on
\* a piece at position c, a pointer-move to design-space point Q (no resize in
\* between) leaves c + (Q - P) as the session's last computed position.
C18_GrabPointPreserved ==
    [][ (last'.name = "onMove" /\ last'.acted)
          => /\ grab' = grab
             /\ DraggedXY' = << grab.c[1] + (last'.pt[1] - grab.p[1]),
                                grab.c[2] + (last'.pt[2] - grab.p[2]) >> ]_vars

\* the pointer has moved away and come back to the point of the pointer-down,
\* which was off the piece's position: the computed position is the piece's
C18_Witness ==
    /\ last.name = "onMove"
    /\ last.acted
    /\ grab # << >>
    /\ last.pt = grab.p
    /\ grab.p # grab.c
    /\ DraggedXY = grab.c

\* C19: a pointer-move changes no registry state (no piece's position or
\* placed flag, nor the completion flag): during a drag it changes only the
\* session's last computed position and the dragged element's transform.
\* That position is retained until the release, which uses it.
C19_MoveTouchesOnlyTheSession ==
    [][ /\ last'.name = "onMove"
            => /\ pieces' = pieces
               /\ completed' = completed
               /\ effectPending' = effectPending
               /\ snapTimers' = snapTimers
               /\ particles' = particles
               /\ dragRef # << >>
                     => /\ dragRef' = << [dragRef[1] EXCEPT !.lastXY = DraggedXY'] >>
                        /\ style' = [style EXCEPT ![dragRef[1].el].transform =
                                                     style'[dragRef[1].el].transform]
        /\ last'.name \notin {"onDown", "onMove", "onUp"} => dragRef' = dragRef
        /\ (last'.name = "onUp" /\ DraggedXY # << >>)
            => \A i \in 1..Len(pieces) :
                  (pieces[i].id = dragRef[1].id /\ ~pieces[i].placed)
                     => pieces'[i].position =
                           IF SqDist(DraggedXY[1], DraggedXY[2],
                                     pieces[i].target.x, pieces[i].target.y)
                                 < SNAP_RADIUS * SNAP_RADIUS
                           THEN pieces[i].target
                           ELSE [x |-> DraggedXY[1], y |-> DraggedXY[2]]
      ]_vars

\* the wheel was dragged to (600,900), away from its spawn position and from
\* its target, and released there
C19_Witness ==
    /\ last.name = "onUp"
    /\ last.acted
    /\ ~last.snapped
    /\ last.id = "wheel"
    /\ PieceById("wheel").position = [x |-> 600, y |-> 900]
    /\ PieceById("wheel").position # SpawnedPieces[1].position
    /\ ~completed

\* the elevation onDown gives an element
Elevated(st) == st.zIndex = "60" \/ st.filter = "shadow"

\* C20: after the pointer-up that ends a gesture, an element elevated by a
\* pointer-down is elevated no longer, unless the release snapped it and its
\* 120 ms timer is still to fire, and that timer clears it; the release emits
\* the small particle burst exactly when it snapped a piece.
C20_ElevationClearedAfterGesture ==
    [][ /\ (last'.name = "onUp" /\ last'.acted)
            => /\ (particles'.small > particles.small)
                     <=> (\E i \in 1..Len(pieces) : ~pieces[i].placed /\ pieces'[i].placed)
               /\ particles'.big = particles.big
               /\ \A id \in DOMAIN style' :
                     Elevated(style'[id]) => \E t \in snapTimers' : t.el = id
        /\ last'.name = "snapTimer" => ~Elevated(style'[last'.id])
      ]_vars

\* C21: until a non-empty manifest has arrived (the fetch is pending, has
\* failed, or returned no piece) the registry is empty, and with an empty
\* registry the completion flag is false, no celebration is or was scheduled
\* and no drag session exists: an empty registry is not "every piece placed".
C21_EmptyRegistryIsQuiet ==
    /\ fetchState \in {"pending", "failed"} => pieces = << >>
    /\ pieces = << >>
          => /\ ~completed
             /\ ~AllPlaced(pieces)
             /\ celebScheduled = 0
             /\ celebTimers = 0
             /\ particles.big = 0
             /\ dragRef = << >>

\* the completion effect has run on the empty registry of an empty manifest
C21_Witness ==
    /\ fetchState = "done"
    /\ pieces = << >>
    /\ last.name = "effect"
    /\ ~effectPending
    /\ ~completed

\* C22: a pointer-up changes at most the piece the drag session names: the
\* registry keeps its length and order, every piece keeps its id and target,
\* and every piece other than the session's keeps its position and placed flag.
C22_ReleaseChangesOnePiece ==
    [][ last'.name = "onUp"
          => /\ Len(pieces') = Len(pieces)
             /\ \A i \in 1..Len(pieces) :
                   /\ pieces'[i].id = pieces[i].id
                   /\ pieces'[i].target = pieces[i].target
                   /\ (dragRef = << >> \/ pieces[i].id # dragRef[1].id)
                         => pieces'[i] = pieces[i] ]_vars

\* the cab has been snapped by a release while the wheel lay where an earlier
\* release had dropped it, unplaced
C22_Witness ==
    /\ last.name = "onUp"
    /\ last.acted
    /\ last.snapped
    /\ last.id = "cab"
    /\ PieceById("cab").placed
    /\ PieceById("wheel").position = [x |-> 600, y |-> 900]
    /\ ~PieceById("wheel").placed
    /\ Len(pieces) = 2

\* C23: a pointer-up that follows the pointer-down with no pointer-move in
\* between takes the piece's registry position as the final position: the
\* piece is left as it was, unplaced, unless that position is already within
\* SNAP_RADIUS of the target, in which case it becomes placed at its target.
C23_ClickKeepsOrSnaps ==
    [][ (last'.name = "onUp" /\ dragRef # << >>)
          => /\ DraggedXY = << >>
             /\ \A i \in 1..Len(pieces) :
                   (pieces[i].id = dragRef[1].id /\ ~pieces[i].placed)
                      => IF SqDist(pieces[i].position.x, pieces[i].position.y,
                                   pieces[i].target.x, pieces[i].target.y)
                               < SNAP_RADIUS * SNAP_RADIUS
                         THEN /\ pieces'[i].placed
                              /\ pieces'[i].position = pieces[i].target
                         ELSE pieces'[i] = pieces[i] ]_vars

\* the cab, spawned within the snap radius of its target, has been snapped by
\* a click, and a click on the wheel has left it at its spawn position
C23_Witness ==
    /\ last.name = "onUp"
    /\ last.acted
    /\ ~last.snapped
    /\ last.id = "wheel"
    /\ PieceById("wheel") = SpawnedPieces[1]
    /\ PieceById("cab").placed
    /\ PieceById("cab").position = PieceById("cab").target
    /\ SqDist(SpawnedPieces[2].position.x, SpawnedPieces[2].position.y,
              SpawnedPieces[2].target.x, SpawnedPieces[2].target.y)
          < SNAP_RADIUS * SNAP_RADIUS

\* C24: whenever a drag session is live, the piece it names is in the
\* registry and is not placed, and the completion flag is false.
C24_LiveSessionNamesUnplacedPiece ==
    dragRef # << >>
        => /\ HasPiece(dragRef[1].id)
           /\ ~PieceById(dragRef[1].id).placed
           /\ ~completed

\* a session is live on the wheel after the cab has been placed, its timer
\* has fired and the completion effect has run
C24_Witness ==
    /\ dragRef # << >>
    /\ dragRef[1].id = "wheel"
    /\ last.name = "onDown"
    /\ last.acted
    /\ PieceById("cab").placed
    /\ snapTimers = {}
    /\ ~effectPending

====
